---- MODULE Spec2Model ----
(***************************************************************************)
(* A model of the ping node of src/src/main.rs.                            *)
(*                                                                         *)
(* main() installs a tracing subscriber, builds a libp2p swarm (TCP + TLS  *)
(* + Yamux, ping behaviour, 30 s idle connection timeout), listens on      *)
(* /ip4/0.0.0.0/tcp/0, dials the multiaddress given as first command-line  *)
(* argument if there is one, and then loops forever taking the next        *)
(* SwarmEvent from the swarm and logging four of its kinds.                *)
(*                                                                         *)
(* The swarm is a library object: what main.rs does with it (the calls it   *)
(* makes and the events it takes from it) is modelled; which events the    *)
(* swarm yields is an input of the program, drawn from a bounded set.      *)
(***************************************************************************)
EXTENDS Naturals, Sequences, FiniteSets

VARIABLES
    pc,        \* position of main()
    rustLog,   \* the RUST_LOG environment variable, as a set of directives
    arg,       \* std::env::args().nth(1): NoArg or a multiaddress text
    filter,    \* the EnvFilter installed by the subscriber
    sink,      \* lines written by the tracing subscriber
    stdout,    \* lines written by println!
    swarm,     \* the swarm as main() configured it
    swarmQ,    \* events the swarm stream has ready, oldest first
    produced,  \* history: every event the swarm made ready
    cur,       \* the event select_next_some() returned, being matched
    handled,   \* history: every event whose match arm has run
    called     \* history: the fallible operations main() performed, with their results

vars == <<pc, rustLog, arg, filter, sink, stdout, swarm, swarmQ, produced, cur, handled, called>>

----
(* Bounds of the model *)

MaxEvents == 3

MaxConn == 2

----
(* Log levels and the EnvFilter of lines 19..23 *)

\* Verbosity order of tracing's levels: ERROR is the least verbose.
LevelNum(l) ==
    CASE l = "ERROR" -> 1
      [] l = "WARN"  -> 2
      [] l = "INFO"  -> 3
      [] l = "DEBUG" -> 4
      [] l = "TRACE" -> 5

\* The target of every event main.rs logs is its own crate.
CrateTarget == "libp2p_ping_example"

\* A directive with target "" has no target and applies to every event.
Directive(t, l) == [target |-> t, level |-> l]

RustLogValues ==
    { {},
      {Directive("", "DEBUG")},
      {Directive(CrateTarget, "DEBUG")},
      {Directive(CrateTarget, "WARN")} }

\* EnvFilter::from_default_env(): the directives of RUST_LOG, or the default
\* directive (ERROR, no target) when there is none.
FromDefaultEnv(env) == IF env = {} THEN {Directive("", "ERROR")} ELSE env

\* EnvFilter::add_directive: a directive replaces the one with the same target.
AddDirective(f, d) == {x \in f : x.target # d.target} \cup {d}

\* Lines 19..23: the filter the subscriber is built with.
InstalledFilter(env) == AddDirective(FromDefaultEnv(env), Directive("", "INFO"))

\* Whether the filter lets through an event of main.rs at level l: the most
\* specific directive that matches the target decides.
Enabled(f, l) ==
    LET own == {d \in f : d.target = CrateTarget}
        any == {d \in f : d.target = ""}
        use == IF own # {} THEN own ELSE any
    IN  \E d \in use : LevelNum(l) <= LevelNum(d.level)

\* tracing::info! / tracing::debug!: the lines a logging call adds to the sink.
Emit(f, calls) == SelectSeq(calls, LAMBDA c : Enabled(f, c.level))

LogCall(l, w, s, c) == [level |-> l, what |-> w, seq |-> s, conn |-> c]

----
(* Multiaddresses: a text is the sequence of its "/"-separated parts *)

NoArg == <<>>

ListenText == <<"ip4", "0.0.0.0", "tcp", "0">>

ArgValues ==
    { NoArg,
      <<"ip4", "127.0.0.1", "tcp", "4001">>,
      <<"ip4", "127.0.0.1", "tcp">>,
      <<"not-a-multiaddr">> }

IpValues == {"0.0.0.0", "127.0.0.1"}

PortValues == {"0", "1", "4001"}

\* str::parse::<Multiaddr>(): protocol names each followed by a value of the
\* protocol's type; anything else is an error.
ParseOk(text) ==
    /\ Len(text) > 0
    /\ Len(text) % 2 = 0
    /\ \A i \in 1..Len(text) :
          i % 2 = 1 =>
             \/ text[i] = "ip4" /\ text[i + 1] \in IpValues
             \/ text[i] = "tcp" /\ text[i + 1] \in PortValues

----
(* The swarm and its events *)

\* Line 48: Duration::from_secs(30)
IdleConnectionTimeoutSecs == 30

NoSwarm ==
    [built |-> FALSE, transport |-> <<>>, behaviour |-> "none",
     idle_timeout |-> 0, listeners |-> <<>>, dials |-> <<>>]

\* Lines 32..49: the swarm the builder yields.
BuiltSwarm ==
    [built |-> TRUE, transport |-> <<"tcp", "tls", "yamux">>, behaviour |-> "ping",
     idle_timeout |-> IdleConnectionTimeoutSecs, listeners |-> <<>>, dials |-> <<>>]

\* The kinds of SwarmEvent main() names in its match ...
NamedKinds == {"NewListenAddr", "ConnectionEstablished", "Behaviour", "ConnectionClosed"}

\* ... and kinds that fall to the wildcard arm.
OtherKinds == {"OutgoingConnectionError", "ListenerError"}

ConnIds == 1..MaxConn

PingResults == {"Ok", "Failure"}

Event(s, k, c, r) == [seq |-> s, kind |-> k, conn |-> c, result |-> r]

NoEvent == Event(0, "none", 0, "none")

\* The events the swarm can yield as its s-th event.
EventsAt(s) ==
    {Event(s, "NewListenAddr", 0, "none")}
    \cup {Event(s, k, c, "none") : k \in {"ConnectionEstablished", "ConnectionClosed"}, c \in ConnIds}
    \cup {Event(s, "Behaviour", c, r) : c \in ConnIds, r \in PingResults}
    \cup {Event(s, k, 0, "none") : k \in OtherKinds}

----
(* main() *)

Init ==
    /\ pc = "tracing_init"
    /\ rustLog \in RustLogValues
    /\ arg \in ArgValues
    /\ filter = {}
    /\ sink = <<>>
    /\ stdout = <<>>
    /\ swarm = NoSwarm
    /\ swarmQ = <<>>
    /\ produced = <<>>
    /\ cur = NoEvent
    /\ handled = <<>>
    /\ called = <<>>

\* Lines 19..23
TracingInit ==
    /\ pc = "tracing_init"
    /\ filter' = InstalledFilter(rustLog)
    /\ pc' = "log_starting"
    /\ UNCHANGED <<rustLog, arg, sink, stdout, swarm, swarmQ, produced, cur, handled, called>>

\* Line 25
LogStarting ==
    /\ pc = "log_starting"
    /\ sink' = sink \o Emit(filter, <<LogCall("INFO", "Starting", 0, 0)>>)
    /\ pc' = "build"
    /\ UNCHANGED <<rustLog, arg, filter, stdout, swarm, swarmQ, produced, cur, handled, called>>

Call(op, ok) == [op |-> op, ok |-> ok]

\* Lines 39..46: with_tcp(..)? is tried first, with_behaviour(..)? only after it.
BuildCalls(tcpOk, behaviourOk) ==
    <<Call("with_tcp", tcpOk)>>
    \o (IF tcpOk THEN <<Call("with_behaviour", behaviourOk)>> ELSE <<>>)

\* Lines 32..49: with_tcp(..)? and with_behaviour(..)? may each return an error,
\* which main() returns.
BuildSwarm ==
    /\ pc = "build"
    /\ \E tcpOk \in BOOLEAN, behaviourOk \in BOOLEAN :
          /\ called' = called \o BuildCalls(tcpOk, behaviourOk)
          /\ IF tcpOk /\ behaviourOk
             THEN swarm' = BuiltSwarm /\ pc' = "log_built"
             ELSE swarm' = swarm /\ pc' = "exit_err"
    /\ UNCHANGED <<rustLog, arg, filter, sink, stdout, swarmQ, produced, cur, handled>>

\* Line 52
LogBuilt ==
    /\ pc = "log_built"
    /\ sink' = sink \o Emit(filter, <<LogCall("DEBUG", "Built", 0, 0)>>)
    /\ pc' = "listen"
    /\ UNCHANGED <<rustLog, arg, filter, stdout, swarm, swarmQ, produced, cur, handled, called>>

\* Line 63: the address is parsed first, listen_on is invoked only with a parsed one.
ListenCalls(listenOk) ==
    <<Call("parse_listen", ParseOk(ListenText))>>
    \o (IF ParseOk(ListenText) THEN <<Call("listen_on", listenOk)>> ELSE <<>>)

\* Line 63: where main() is after the two `?`.
AfterListenIgnoreErr(listenOk) == "dial"

AfterListen(listenOk) == IF ParseOk(ListenText) /\ listenOk THEN "dial" ELSE "exit_err"

\* Line 63: parse()? then listen_on(..)?
ListenOn ==
    /\ pc = "listen"
    /\ \E listenOk \in BOOLEAN :
          /\ called' = called \o ListenCalls(listenOk)
          /\ swarm' = IF ParseOk(ListenText) /\ listenOk
                      THEN [swarm EXCEPT !.listeners = Append(@, ListenText)]
                      ELSE swarm
          /\ pc' = AfterListen(listenOk)
    /\ UNCHANGED <<rustLog, arg, filter, sink, stdout, swarmQ, produced, cur, handled>>

\* Lines 67..69: nothing without an argument; else the argument is parsed, and
\* dial is invoked only with a parsed one.
DialCalls(a, dialOk) ==
    IF a = NoArg
    THEN <<>>
    ELSE <<Call("parse_dial", ParseOk(a))>>
         \o (IF ParseOk(a) THEN <<Call("dial", dialOk)>> ELSE <<>>)

\* Lines 67..71: where main() is after the `if let`.
AfterDialIgnoreErr(a, dialOk) == "await"

AfterDial(a, dialOk) ==
    IF a = NoArg \/ (ParseOk(a) /\ dialOk) THEN "await" ELSE "exit_err"

\* Lines 67..71
Dial ==
    /\ pc = "dial"
    /\ \E dialOk \in BOOLEAN :
          /\ called' = called \o DialCalls(arg, dialOk)
          /\ IF arg # NoArg /\ ParseOk(arg) /\ dialOk
             THEN /\ swarm' = [swarm EXCEPT !.dials = Append(@, arg)]
                  /\ stdout' = Append(stdout, <<"Dialed", arg>>)
             ELSE UNCHANGED <<swarm, stdout>>
          /\ pc' = AfterDial(arg, dialOk)
    /\ UNCHANGED <<rustLog, arg, filter, sink, swarmQ, produced, cur, handled>>

\* The swarm makes its next event ready. Its connection tasks run on the
\* executor's threads, at any point of main() once it listens.
SwarmProduce ==
    /\ pc \in {"dial", "await", "match"}
    /\ Len(produced) < MaxEvents
    /\ \E e \in EventsAt(Len(produced) + 1) :
          /\ swarmQ' = Append(swarmQ, e)
          /\ produced' = Append(produced, e)
    /\ UNCHANGED <<pc, rustLog, arg, filter, sink, stdout, swarm, cur, handled, called>>

\* Line 76: the item select_next_some() resolves to, and what stays ready.
TakeNextLast(q) == [ev |-> q[Len(q)], rest |-> SubSeq(q, 1, Len(q) - 1)]

TakeNext(q) == [ev |-> Head(q), rest |-> Tail(q)]

\* Line 76: swarm.select_next_some().await blocks until an event is ready.
SelectNextSome ==
    /\ pc = "await"
    /\ swarmQ # <<>>
    /\ cur' = TakeNext(swarmQ).ev
    /\ swarmQ' = TakeNext(swarmQ).rest
    /\ pc' = "match"
    /\ UNCHANGED <<rustLog, arg, filter, sink, stdout, swarm, produced, handled, called>>

\* Lines 77..102: the logging calls of the arm that matches ev.
MatchArmLogAll(ev) == <<LogCall("INFO", ev.kind, ev.seq, ev.conn)>>

MatchArmPingDebug(ev) ==
    CASE ev.kind = "Behaviour" -> <<LogCall("DEBUG", "Behaviour", ev.seq, ev.conn)>>
      [] ev.kind \in NamedKinds  -> <<LogCall("INFO", ev.kind, ev.seq, ev.conn)>>
      [] OTHER                   -> <<>>

MatchArm(ev) ==
    CASE ev.kind = "NewListenAddr"         -> <<LogCall("INFO", "NewListenAddr", ev.seq, ev.conn)>>
      [] ev.kind = "ConnectionEstablished" -> <<LogCall("INFO", "ConnectionEstablished", ev.seq, ev.conn)>>
      [] ev.kind = "Behaviour"             -> <<LogCall("INFO", "Behaviour", ev.seq, ev.conn)>>
      [] ev.kind = "ConnectionClosed"      -> <<LogCall("INFO", "ConnectionClosed", ev.seq, ev.conn)>>
      [] OTHER                             -> <<>>

\* Lines 73..103: where main() is after the arm: no arm breaks or returns.
AfterArmPropagate(ev) ==
    IF ev.kind \in OtherKinds \/ ev.result = "Failure" THEN "exit_err" ELSE "await"

AfterArm(ev) == "await"

\* Lines 77..102: the operations on the swarm the arm that matches ev performs:
\* every arm only logs.
ArmCallsRedial(ev) ==
    IF ev.kind = "ConnectionClosed" THEN <<Call("dial", TRUE)>> ELSE <<>>

ArmCalls(ev) == <<>>

\* Lines 76..102: the match on the event taken.
MatchEvent ==
    /\ pc = "match"
    /\ sink' = sink \o Emit(filter, MatchArm(cur))
    /\ handled' = Append(handled, cur)
    /\ cur' = NoEvent
    /\ pc' = AfterArm(cur)
    /\ called' = called \o ArmCalls(cur)
    /\ UNCHANGED <<rustLog, arg, filter, stdout, swarm, swarmQ, produced>>

Next ==
    \/ TracingInit
    \/ LogStarting
    \/ BuildSwarm
    \/ LogBuilt
    \/ ListenOn
    \/ Dial
    \/ SwarmProduce
    \/ SelectNextSome
    \/ MatchEvent

Spec == Init /\ [][Next]_vars

----
(* Properties *)

LoopPcs == {"await", "match"}

InfoEnabled == Enabled(filter, "INFO")

\* The number of sink lines written for the event with sequence number s.
LinesFor(s) == Cardinality({j \in DOMAIN sink : sink[j].seq = s})

HandledKind(k) == \E i \in DOMAIN handled : handled[i].kind = k

CurSeq == IF cur = NoEvent THEN <<>> ELSE <<cur>>

\* C1: the event loop never stops because of an event. Whatever the kind of
\* the event handled (dial errors, listener errors and failed ping outcomes
\* included), main() is waiting for the next event right after its arm ran,
\* and once in the loop main() never leaves it.
C1_LoopNeverStopsOnEvent ==
    [][ /\ (handled' # handled => pc' = "await")
        /\ (pc \in LoopPcs => pc' \in LoopPcs) ]_vars

\* C1 witness: a dial error, a listener error and a failed ping outcome have
\* all been handled and main() is waiting for the next event.
C1_Witness ==
    /\ pc = "await"
    /\ HandledKind("OutgoingConnectionError")
    /\ HandledKind("ListenerError")
    /\ \E i \in DOMAIN handled :
          handled[i].kind = "Behaviour" /\ handled[i].result = "Failure"

\* C2, as claimed: every event handled, of whatever kind, has exactly one
\* line in the sink. It is stated here for a filter that lets INFO lines of
\* the program through, the case most favourable to the claim.
C2_EveryEventOneLine ==
    InfoEnabled => \A i \in DOMAIN handled : LinesFor(handled[i].seq) = 1

\* C2, amended: an event handled has exactly one line in the sink, of its own
\* kind and connection, when its kind is one of the four main() names
\* (NewListenAddr, ConnectionEstablished, Behaviour, ConnectionClosed) and the
\* installed filter lets INFO lines of the program through; otherwise it has
\* none.
C2_NamedKindsOneLine ==
    \A i \in DOMAIN handled :
       /\ LinesFor(handled[i].seq) =
             IF handled[i].kind \in NamedKinds /\ InfoEnabled THEN 1 ELSE 0
       /\ \A j \in DOMAIN sink :
             sink[j].seq = handled[i].seq =>
                /\ sink[j].what = handled[i].kind
                /\ sink[j].conn = handled[i].conn
                /\ sink[j].level = "INFO"

\* C2 witness: with INFO enabled, a dial error was handled without a line and
\* a ConnectionEstablished and a failed ping outcome were handled with one each.
C2_Witness ==
    /\ InfoEnabled
    /\ \E i, j, k \in DOMAIN handled :
          /\ handled[i].kind = "OutgoingConnectionError"
          /\ LinesFor(handled[i].seq) = 0
          /\ handled[j].kind = "ConnectionEstablished"
          /\ LinesFor(handled[j].seq) = 1
          /\ handled[k].kind = "Behaviour"
          /\ handled[k].result = "Failure"
          /\ LinesFor(handled[k].seq) = 1

\* C6: every event the swarm made ready is handled exactly once and none is
\* skipped: the events handled, the one being matched and the ones still
\* ready are, in this order, exactly the events produced. So no event is
\* handled twice, and two events of one connection are handled in the order
\* they were produced.
C6_ExactlyOnceInOrder ==
    /\ handled \o CurSeq \o swarmQ = produced
    /\ \A i, j \in DOMAIN handled : handled[i].seq = handled[j].seq => i = j
    /\ \A i, j \in DOMAIN handled :
          (i < j /\ handled[i].conn = handled[j].conn) => handled[i].seq < handled[j].seq

\* C6 witness: two events of connection 1 were handled around one of
\* connection 2, after all three had been ready at once or one after another.
C6_Witness ==
    /\ Len(handled) = 3
    /\ handled[1].kind = "ConnectionEstablished" /\ handled[1].conn = 1
    /\ handled[2].kind = "ConnectionEstablished" /\ handled[2].conn = 2
    /\ handled[3].kind = "Behaviour" /\ handled[3].conn = 1

\* The operations of main() that failed.
Failed == {i \in DOMAIN called : ~called[i].ok}

CalledOp(op) == \E i \in DOMAIN called : called[i].op = op

CalledOk(op) == \E i \in DOMAIN called : called[i].op = op /\ called[i].ok

StartupOps == {"with_tcp", "with_behaviour", "parse_listen", "listen_on", "parse_dial", "dial"}

\* C12: malformed startup input is fatal before any event is handled. main()
\* has returned an error exactly when one of its startup operations (transport
\* construction, behaviour construction, parsing or binding the listen
\* address, parsing the dial argument, dial) failed; the failed operation is
\* the last one it performed; no event was taken or handled and no event line
\* was written; with an unparsable dial argument main() never reaches the
\* loop; and when main() is in the loop every startup operation succeeded.
C12_StartupErrorsFatal ==
    /\ (pc = "exit_err") <=> (Failed # {})
    /\ \A i \in Failed : i = Len(called) /\ called[i].op \in StartupOps
    /\ pc = "exit_err" =>
          /\ handled = <<>>
          /\ cur = NoEvent
          /\ \A j \in DOMAIN sink : sink[j].seq = 0
    /\ (arg # NoArg /\ ~ParseOk(arg)) => pc \notin LoopPcs
    /\ pc \in LoopPcs =>
          /\ Failed = {}
          /\ CalledOk("with_tcp") /\ CalledOk("with_behaviour")
          /\ CalledOk("parse_listen") /\ CalledOk("listen_on")
          /\ arg # NoArg => CalledOk("parse_dial") /\ CalledOk("dial")

\* C12 witness: the dial argument parsed but dial rejected it, after events
\* were already ready: main() returned the error and handled none of them.
C12_Witness ==
    /\ pc = "exit_err"
    /\ CalledOp("dial")
    /\ ~CalledOk("dial")
    /\ swarmQ # <<>>
    /\ handled = <<>>

LifecycleKinds == {"NewListenAddr", "ConnectionEstablished", "ConnectionClosed"}

DebugEnabled == Enabled(filter, "DEBUG")

\* C13, as claimed: ping results are not in the sink at the default
\* verbosity; a line for a ping result is there only when a level more
\* verbose than the default INFO is enabled.
C13_PingResultsNeedVerbose ==
    \A j \in DOMAIN sink : sink[j].what = "Behaviour" => DebugEnabled

\* C13, amended: ping results are logged at INFO like the lifecycle events.
\* A handled lifecycle event or ping result has its line exactly when INFO is
\* enabled, and that line is an INFO line; with RUST_LOG unset INFO is enabled
\* and DEBUG is not, so all of them are shown; the only line that needs a
\* more verbose level is the "Built" line of startup.
C13_PingResultsAtInfo ==
    /\ \A i \in DOMAIN handled :
          handled[i].kind \in LifecycleKinds \cup {"Behaviour"} =>
             /\ (LinesFor(handled[i].seq) = 1) <=> InfoEnabled
             /\ \A j \in DOMAIN sink :
                   sink[j].seq = handled[i].seq => sink[j].level = "INFO"
    /\ (rustLog = {} /\ pc # "tracing_init") => (InfoEnabled /\ ~DebugEnabled)
    /\ \A j \in DOMAIN sink :
          sink[j].level = "DEBUG" => (sink[j].what = "Built" /\ DebugEnabled)

\* C13 witness: with RUST_LOG unset a successful ping result, a failed one
\* and a ConnectionEstablished have been handled and each has its line.
C13_Witness ==
    /\ rustLog = {}
    /\ \E i, j, k \in DOMAIN handled :
          /\ handled[i].kind = "Behaviour" /\ handled[i].result = "Ok"
          /\ LinesFor(handled[i].seq) = 1
          /\ handled[j].kind = "Behaviour" /\ handled[j].result = "Failure"
          /\ LinesFor(handled[j].seq) = 1
          /\ handled[k].kind = "ConnectionEstablished"
          /\ LinesFor(handled[k].seq) = 1

\* The position in called of the first operation op, or 0 when there is none.
FirstCalled(op) ==
    IF CalledOp(op)
    THEN CHOOSE i \in DOMAIN called :
            called[i].op = op /\ \A j \in DOMAIN called : called[j].op = op => i <= j
    ELSE 0

EventTaken == cur # NoEvent \/ handled # <<>>

\* C18: startup ordering. listen_on is issued before dial; dial is issued only
\* with a dial argument and only after listen_on succeeded, so never after a
\* failed listen_on; and an event is taken from the swarm only after
\* listen_on succeeded and, with a dial argument, after dial was issued and
\* succeeded, even when events were ready earlier.
C18_StartupOrder ==
    /\ CalledOp("dial") =>
          /\ arg # NoArg
          /\ CalledOk("listen_on")
          /\ FirstCalled("listen_on") < FirstCalled("dial")
    /\ (CalledOp("listen_on") /\ ~CalledOk("listen_on")) => ~CalledOp("dial")
    /\ EventTaken =>
          /\ CalledOk("listen_on")
          /\ arg # NoArg => CalledOk("dial")
    /\ pc \in {"tracing_init", "log_starting", "build", "log_built", "listen", "dial"} =>
          ~EventTaken

\* C18 witness: with a dial argument, listen_on and then dial succeeded, and an
\* event has been handled.
C18_Witness ==
    /\ arg # NoArg
    /\ CalledOk("listen_on")
    /\ CalledOk("dial")
    /\ FirstCalled("listen_on") < FirstCalled("dial")
    /\ Len(handled) >= 1
    /\ swarm.dials = <<arg>>

\* C20: the dispatcher is a pure observer. While main() is in its loop it
\* performs no operation on the swarm (no listen_on, no dial, no close) and
\* leaves the swarm as it configured it; the step that handles an event
\* changes only the sink and the dispatcher's own position, not the events
\* the swarm has ready. So no close is ever requested locally.
C20_DispatcherPureObserver ==
    [][ /\ pc \in LoopPcs =>
              /\ called' = called
              /\ swarm' = swarm
              /\ stdout' = stdout
              /\ filter' = filter
        /\ handled' # handled =>
              /\ swarmQ' = swarmQ
              /\ produced' = produced ]_vars

\* C20 witness: a ConnectionClosed event and a failed ping outcome have been
\* handled, and the only operations main() ever performed are those of startup.
C20_Witness ==
    /\ pc = "await"
    /\ HandledKind("ConnectionClosed")
    /\ \E i \in DOMAIN handled :
          handled[i].kind = "Behaviour" /\ handled[i].result = "Failure"
    /\ \A i \in DOMAIN called : called[i].op \in StartupOps
    /\ Len(swarm.listeners) = 1

====
